---- MODULE Spec2Model ----
(***************************************************************************)
(* Biscuits: route trie (TrieCache), middleware executor, request          *)
(* dispatcher and error handler of src/index.js; the rateLimit and timeout *)
(* middleware of src/BiscuitsJar.js.                                       *)
(*                                                                         *)
(* Strings that the code inspects character by character (route patterns,  *)
(* request URLs) are sequences of one-character strings, so that           *)
(* split('/'), filter(Boolean), startsWith(':') and slice(1) are computed. *)
(***************************************************************************)
EXTENDS Naturals, Sequences, FiniteSets, TLC

\* ------------------------------------------------------------------ bounds

\* Largest number of route registrations made on one TrieCache.
MaxRoutes == 3

\* Largest number of global middleware registered with use(handler) after
\* the core middleware.
MaxGlobal == 2

\* Largest number of handlers passed to one get/post registration.
MaxHandlers == 2

\* ------------------------------------------------------------ small helpers

EmptyMap == [x \in {} |-> 0]

MapSet(f, k, v) == [x \in (DOMAIN f) \cup {k} |-> IF x = k THEN v ELSE f[x]]

Methods == {"GET", "POST"}

SetMax(S) == CHOOSE x \in S : \A y \in S : y <= x

SetMin(S) == CHOOSE x \in S : \A y \in S : x <= y

\* --------------------------------------------------------------- TrieCache

\* path.split('/'): the pieces between slashes, empty pieces included.
RECURSIVE SplitFrom(_, _, _)
SplitFrom(rest, cur, acc) ==
  IF rest = <<>> THEN Append(acc, cur)
  ELSE IF Head(rest) = "/" THEN SplitFrom(Tail(rest), <<>>, Append(acc, cur))
  ELSE SplitFrom(Tail(rest), Append(cur, Head(rest)), acc)

Split(path) == SplitFrom(path, <<>>, <<>>)

\* A faulty variant of FilterBoolean: empty pieces are kept.
FilterBooleanKeepsEmpty(parts) == parts

\* .filter(Boolean): the empty string is falsy and is dropped.
FilterBoolean(parts) == SelectSeq(parts, LAMBDA p : p # <<>>)

\* path.split('/').filter(Boolean)
Parts(path) == FilterBoolean(Split(path))

\* part.startsWith(':')
StartsWithColon(part) == part # <<>> /\ Head(part) = ":"

\* The paramName of a node that is not a dynamic child (never read).
NoName == <<"undefined">>

\* new TrieNode()
TrieNode == [staticChildren |-> EmptyMap, dynamicChild |-> 0,
             paramName |-> NoName, handlers |-> EmptyMap]

Root == 1

\* new TrieCache(): nodes are numbered in creation order, the root first.
TrieCache == <<TrieNode>>

\* A faulty variant of AddWalk: a later registration renames the dynamic child.
RECURSIVE AddWalkRenames(_, _, _, _, _)
AddWalkRenames(nodes, node, parts, method, handler) ==
  IF parts = <<>>
  THEN [nodes EXCEPT ![node].handlers = MapSet(@, method, handler)]
  ELSE LET part == Head(parts) IN
    IF StartsWithColon(part)
    THEN IF nodes[node].dynamicChild = 0
         THEN LET id == Len(nodes) + 1 IN
              AddWalkRenames(
                Append([nodes EXCEPT ![node].dynamicChild = id],
                       [TrieNode EXCEPT !.paramName = Tail(part)]),
                id, Tail(parts), method, handler)
         ELSE AddWalkRenames(
                [nodes EXCEPT ![nodes[node].dynamicChild].paramName = Tail(part)],
                nodes[node].dynamicChild, Tail(parts), method, handler)
    ELSE IF part \notin DOMAIN nodes[node].staticChildren
         THEN LET id == Len(nodes) + 1 IN
              AddWalkRenames(
                Append([nodes EXCEPT ![node].staticChildren = MapSet(@, part, id)],
                       TrieNode),
                id, Tail(parts), method, handler)
         ELSE AddWalkRenames(nodes, nodes[node].staticChildren[part],
                             Tail(parts), method, handler)

\* A faulty variant of AddWalk: a parameter with another name gets a dynamic
\* child of its own, which takes the place of the first one.
RECURSIVE AddWalkSecondChild(_, _, _, _, _)
AddWalkSecondChild(nodes, node, parts, method, handler) ==
  IF parts = <<>>
  THEN [nodes EXCEPT ![node].handlers = MapSet(@, method, handler)]
  ELSE LET part == Head(parts) IN
    IF StartsWithColon(part)
    THEN IF \/ nodes[node].dynamicChild = 0
            \/ nodes[nodes[node].dynamicChild].paramName # Tail(part)
         THEN LET id == Len(nodes) + 1 IN
              AddWalkSecondChild(
                Append([nodes EXCEPT ![node].dynamicChild = id],
                       [TrieNode EXCEPT !.paramName = Tail(part)]),
                id, Tail(parts), method, handler)
         ELSE AddWalkSecondChild(nodes, nodes[node].dynamicChild, Tail(parts),
                                 method, handler)
    ELSE IF part \notin DOMAIN nodes[node].staticChildren
         THEN LET id == Len(nodes) + 1 IN
              AddWalkSecondChild(
                Append([nodes EXCEPT ![node].staticChildren = MapSet(@, part, id)],
                       TrieNode),
                id, Tail(parts), method, handler)
         ELSE AddWalkSecondChild(nodes, nodes[node].staticChildren[part],
                                 Tail(parts), method, handler)

\* The loop of TrieCache.add and its final handlers.set(method, handler).
RECURSIVE AddWalk(_, _, _, _, _)
AddWalk(nodes, node, parts, method, handler) ==
  IF parts = <<>>
  THEN [nodes EXCEPT ![node].handlers = MapSet(@, method, handler)]
  ELSE LET part == Head(parts) IN
    IF StartsWithColon(part)
    THEN IF nodes[node].dynamicChild = 0
         THEN LET id == Len(nodes) + 1 IN
              AddWalk(
                Append([nodes EXCEPT ![node].dynamicChild = id],
                       [TrieNode EXCEPT !.paramName = Tail(part)]),
                id, Tail(parts), method, handler)
         ELSE AddWalk(nodes, nodes[node].dynamicChild, Tail(parts), method, handler)
    ELSE IF part \notin DOMAIN nodes[node].staticChildren
         THEN LET id == Len(nodes) + 1 IN
              AddWalk(
                Append([nodes EXCEPT ![node].staticChildren = MapSet(@, part, id)],
                       TrieNode),
                id, Tail(parts), method, handler)
         ELSE AddWalk(nodes, nodes[node].staticChildren[part],
                      Tail(parts), method, handler)

\* TrieCache.add(method, path, handler)
TrieCacheAdd(nodes, method, path, handler) ==
  AddWalk(nodes, Root, Parts(path), method, handler)

\* The result of a lookup: null is found = FALSE.
Null == [found |-> FALSE, handler |-> 0, params |-> EmptyMap]

\* A faulty variant of GetWalk: the dynamic child is tried before the literal one.
RECURSIVE GetWalkDynamicFirst(_, _, _, _, _)
GetWalkDynamicFirst(nodes, node, parts, params, method) ==
  IF parts = <<>>
  THEN IF method \in DOMAIN nodes[node].handlers
       THEN [found |-> TRUE, handler |-> nodes[node].handlers[method],
             params |-> params]
       ELSE Null
  ELSE LET part == Head(parts) IN
    IF nodes[node].dynamicChild # 0
    THEN LET d == nodes[node].dynamicChild IN
         GetWalkDynamicFirst(nodes, d, Tail(parts),
                             MapSet(params, nodes[d].paramName, part), method)
    ELSE IF part \in DOMAIN nodes[node].staticChildren
    THEN GetWalkDynamicFirst(nodes, nodes[node].staticChildren[part],
                             Tail(parts), params, method)
    ELSE Null

\* A faulty variant of GetWalk: when the walk below the literal child finds
\* nothing, the dynamic child is tried.
RECURSIVE GetWalkBacktracks(_, _, _, _, _)
GetWalkBacktracks(nodes, node, parts, params, method) ==
  IF parts = <<>>
  THEN IF method \in DOMAIN nodes[node].handlers
       THEN [found |-> TRUE, handler |-> nodes[node].handlers[method],
             params |-> params]
       ELSE Null
  ELSE LET part == Head(parts)
           d == nodes[node].dynamicChild
           below == IF part \in DOMAIN nodes[node].staticChildren
                    THEN GetWalkBacktracks(nodes, nodes[node].staticChildren[part],
                                           Tail(parts), params, method)
                    ELSE Null
       IN IF below.found THEN below
          ELSE IF d # 0
          THEN GetWalkBacktracks(nodes, d, Tail(parts),
                                 MapSet(params, nodes[d].paramName, part), method)
          ELSE Null

\* The loop of TrieCache.get and its final handlers.get(method).
RECURSIVE GetWalk(_, _, _, _, _)
GetWalk(nodes, node, parts, params, method) ==
  IF parts = <<>>
  THEN IF method \in DOMAIN nodes[node].handlers
       THEN [found |-> TRUE, handler |-> nodes[node].handlers[method],
             params |-> params]
       ELSE Null
  ELSE LET part == Head(parts) IN
    IF part \in DOMAIN nodes[node].staticChildren
    THEN GetWalk(nodes, nodes[node].staticChildren[part], Tail(parts),
                 params, method)
    ELSE IF nodes[node].dynamicChild # 0
    THEN LET d == nodes[node].dynamicChild IN
         GetWalk(nodes, d, Tail(parts),
                 MapSet(params, nodes[d].paramName, part), method)
    ELSE Null

\* TrieCache.get(method, path)
TrieCacheGet(nodes, method, path) ==
  GetWalk(nodes, Root, Parts(path), EmptyMap, method)

\* ------------------------------------------------------------ program state

VARIABLES
  trie,      \* TrieCache.root and the nodes below it
  regs,      \* the registrations made so far, in order (history)
  found,     \* the last TrieCache.get call and its result
  router,    \* the (method, path) pairs declared in the find-my-way router
  app,       \* the application after setup: middleware, route, listeners
  req,       \* the request: method, url, headers, payload, params, body
  res,       \* the response: statusCode, headersSent, writableEnded, ...
  wire,      \* what res.end has put on the wire, one entry per response
  index,     \* _executeMiddlewareStack's index of the next global layer
  frames,    \* one entry per started handler invocation and its promise
  hpc,       \* where _handleRequest is
  hchild,    \* the frame whose promise _handleRequest awaits
  wpc,       \* where the wrapped route handler (_wrapHandlers) is
  wrapped,   \* which wrapped handler runs, and whether its caller awaits it
  wchild,    \* the frame whose promise the wrapped handler awaits
  log,       \* handler starts and continuation calls, in order (history)
  errCalls,  \* the calls of _handleError, in order (history)
  nfCalls,   \* the calls of _send404, in order (history)
  emitted,   \* 'error' events delivered to listeners
  unhandled, \* failures that reached no handler (unhandled rejections)
  rateLimitStore, \* BiscuitsJar.rateLimitStore: address -> {count, start}
  now,       \* Date.now()
  timer,     \* the timer set by the timeout middleware for the request
  peer       \* a second request handled at the same time: its own req, res,
             \* wire, index, frames, ... (the fields of Cur)

trieVars == <<trie, regs, found, router>>

reqVars == <<app, req, res, wire, index, frames, hpc, hchild, wpc, wrapped,
             wchild, log, errCalls, nfCalls, emitted, unhandled>>

jarVars == <<rateLimitStore, now, timer>>

vars == <<trie, regs, found, router, app, req, res, wire, index, frames, hpc, hchild,
          wpc, wrapped, wchild, log, errCalls, nfCalls, emitted, unhandled,
          rateLimitStore, now, timer, peer>>

\* ------------------------------------------------- registration and lookup

\* Patterns given to TrieCache.add.
Patterns ==
  { <<"/">>,
    <<"/", "m">>,
    <<"/", "/", "m", "/">>,
    <<"/", "m", "/", "m">>,
    <<"/", ":", "i">>,
    <<"/", ":", "j">>,
    <<"/", ":", "j", "/", "m">>,
    <<"/", ":", "i", "/", ":", "j">> }

\* Paths given to TrieCache.get.
Paths ==
  { <<"/">>,
    <<"/", "m">>,
    <<"/", "m", "/">>,
    <<"/", "7">>,
    <<"/", "m", "/", "m">>,
    <<"/", "7", "/", "m">>,
    <<"/", "m", "/", "7">>,
    <<"/", "7", "/", "/", "7">> }

NoLookup == [method |-> "", path |-> <<>>, result |-> Null]

\* The request side before any request has arrived.
NoApp == [globalMiddleware |-> <<>>, routeMethod |-> "GET",
          routeHandlers |-> <<>>, mountHandlers |-> <<>>,
          schema |-> "none", listeners |-> 0]

NoErr == [name |-> "none", by |-> <<>>, message |-> "", details |-> <<>>]

NoBody == [t |-> "unset", v |-> EmptyMap]

NoReq == [method |-> "GET", url |-> <<"/">>, json |-> FALSE,
          payload |-> <<>>, params |-> EmptyMap, body |-> NoBody]

\* A fresh http.ServerResponse; helpers counts how often the helper
\* functions (status, send, json, set, redirect) were assigned to it.
NewRes == [enhanced |-> FALSE, helpers |-> 0, statusCode |-> 200, contentType |-> "",
           location |-> "", writable |-> TRUE, headersSent |-> FALSE,
           writableEnded |-> FALSE]

NoWrapped == [which |-> "none", awaited |-> FALSE, err |-> NoErr]

\* No second request.
NoPeer == [hpc |-> "none"]

\* A request that _handleRequest has not been given yet.
RequestIdle(r) ==
  /\ req = r
  /\ res = NewRes
  /\ wire = <<>>
  /\ index = 1
  /\ frames = <<>>
  /\ hpc = "idle"
  /\ hchild = 0
  /\ wpc = "none"
  /\ wrapped = NoWrapped
  /\ wchild = 0
  /\ log = <<>>
  /\ errCalls = <<>>
  /\ nfCalls = <<>>
  /\ emitted = <<>>
  /\ unhandled = <<>>

\* A TrieCache right after construction; nothing is registered.
\* new BiscuitsJar(): an empty rateLimitStore; no timer is set.
JarNew ==
  /\ rateLimitStore = EmptyMap
  /\ now = 0
  /\ timer = "none"

InitTrie ==
  /\ trie = TrieCache
  /\ regs = <<>>
  /\ found = NoLookup
  /\ router = {}
  /\ app = NoApp
  /\ RequestIdle(NoReq)
  /\ JarNew
  /\ peer = NoPeer

\* trieCache.add(method, path, handler) during setup; the handler chain of
\* the k-th registration is identified by k.
Register(method, path) ==
  /\ found = NoLookup
  /\ Len(regs) < MaxRoutes
  /\ trie' = TrieCacheAdd(trie, method, path, Len(regs) + 1)
  /\ regs' = Append(regs, [method |-> method, path |-> path,
                           handler |-> Len(regs) + 1])
  /\ UNCHANGED <<found, router, reqVars, jarVars, peer>>

\* trieCache.get(method, path) once traffic is accepted.
Lookup(method, path) ==
  /\ found = NoLookup
  /\ found' = [method |-> method, path |-> path,
               result |-> TrieCacheGet(trie, method, path)]
  /\ UNCHANGED <<trie, regs, router, reqVars, jarVars, peer>>

NextTrie ==
  \/ \E m \in Methods, p \in Patterns : Register(m, p)
  \/ \E m \in Methods, p \in Paths : Lookup(m, p)

SpecTrie == InitTrie /\ [][NextTrie]_vars

\* The failure find-my-way raises from router.on for a (method, path) pair
\* that is already declared.
AlreadyDeclared ==
  [name |-> "AssertionError", by |-> <<"find-my-way", 0>>,
   message |-> "Method already declared for route", details |-> <<>>]

\* _addRoute(method, path, ...handlers) during setup: router.on first, then
\* trieCache.add; a failure of router.on leaves _addRoute before the trie
\* is touched. The registration is recorded with the failure it raised.
AddRoute(method, path) ==
  LET pair == [method |-> method, path |-> path]
      declared == pair \in router
  IN /\ found = NoLookup
     /\ Len(regs) < MaxRoutes
     /\ router' = router \cup {pair}
     /\ trie' = IF declared THEN trie
                ELSE TrieCacheAdd(trie, method, path, Len(regs) + 1)
     /\ regs' = Append(regs, [method |-> method, path |-> path,
                              handler |-> Len(regs) + 1,
                              thrown |-> IF declared THEN AlreadyDeclared
                                         ELSE NoErr])
     /\ UNCHANGED <<found, reqVars, jarVars, peer>>

NextRoutes ==
  \/ \E m \in Methods, p \in Patterns : AddRoute(m, p)
  \/ \E m \in Methods, p \in Paths : Lookup(m, p)

SpecRoutes == InitTrie /\ [][NextRoutes]_vars

\* ---------------------------------------------------- response and errors

\* The mutable state a synchronous run of handler code reads and writes.
Cur ==
  [req |-> req, res |-> res, wire |-> wire, index |-> index,
   frames |-> frames, hpc |-> hpc, hchild |-> hchild, wpc |-> wpc,
   wrapped |-> wrapped, wchild |-> wchild, log |-> log,
   errCalls |-> errCalls, nfCalls |-> nfCalls, emitted |-> emitted,
   unhandled |-> unhandled]

Commit(s) ==
  /\ req' = s.req
  /\ res' = s.res
  /\ wire' = s.wire
  /\ index' = s.index
  /\ frames' = s.frames
  /\ hpc' = s.hpc
  /\ hchild' = s.hchild
  /\ wpc' = s.wpc
  /\ wrapped' = s.wrapped
  /\ wchild' = s.wchild
  /\ log' = s.log
  /\ errCalls' = s.errCalls
  /\ nfCalls' = s.nfCalls
  /\ emitted' = s.emitted
  /\ unhandled' = s.unhandled

\* A call that returns normally, or throws.
Ok(s) == [s |-> s, thrown |-> NoErr]

Throws(s, e) == [s |-> s, thrown |-> e]

\* A string body, and the body of res.json({error, error_code, details}).
Text(str) == [kind |-> "string", text |-> str, code |-> "", details |-> <<>>]

Json(str, code, details) ==
  [kind |-> "json", text |-> str, code |-> code, details |-> details]

\* A failure raised by a handler (new Error(...)), one it hands to its
\* continuation, and those raised by Node itself.
ContinuationError(chain, i) ==
  [name |-> "Error", by |-> <<chain, i>>, message |-> "denied", details |-> <<>>]

HandlerError(chain, i) ==
  [name |-> "Error", by |-> <<chain, i>>, message |-> "boom", details |-> <<>>]

HeadersSentError ==
  [name |-> "ERR_HTTP_HEADERS_SENT", by |-> <<"node", 0>>,
   message |-> "Cannot set headers after they are sent to the client",
   details |-> <<>>]

TypeError ==
  [name |-> "TypeError", by |-> <<"node", 0>>,
   message |-> "Cannot read properties of undefined", details |-> <<>>]

\* field: err.property.replace(/^instance\./, ''); a property path is the
\* sequence of its dot-separated components.
StripInstance(property) ==
  IF Len(property) > 1 /\ property[1] = "instance" THEN Tail(property)
  ELSE property

\* new CustomValidationError(errors): reading .replace of an error without
\* a property throws a TypeError out of the constructor. super(errors) hands
\* the error list to ValidationError as the message.
CustomValidationError(errors) ==
  IF \E k \in 1..Len(errors) : errors[k].property = <<>>
  THEN [thrown |-> TypeError, value |-> NoErr]
  ELSE [thrown |-> NoErr,
        value |-> [name |-> "CustomValidationError", by |-> <<"validate", 0>>,
                   message |-> "errors",
                   details |-> [k \in 1..Len(errors) |->
                                  [field |-> StripInstance(errors[k].property),
                                   message |-> errors[k].message]]]]

\* A faulty variant of ResEnd: ending an ended response writes again.
ResEndAgain(s, body) ==
  [s EXCEPT !.wire = Append(@, [status |-> s.res.statusCode,
                                type |-> s.res.contentType, body |-> body]),
            !.res.headersSent = TRUE,
            !.res.writableEnded = TRUE]

\* res.end(body): the response goes on the wire once; after that the
\* response is ended and a further end() writes nothing.
ResEnd(s, body) ==
  IF s.res.writableEnded THEN s
  ELSE [s EXCEPT !.wire = Append(@, [status |-> s.res.statusCode,
                                     type |-> s.res.contentType, body |-> body]),
                 !.res.headersSent = TRUE,
                 !.res.writableEnded = TRUE]

\* res.setHeader('Content-Type', type): Node throws once headers are sent.
SetContentType(s, type) ==
  IF s.res.headersSent THEN Throws(s, HeadersSentError)
  ELSE Ok([s EXCEPT !.res.contentType = type])

\* res.status(code)
ResStatus(s, code) == [s EXCEPT !.res.statusCode = code]

\* The values a handler passes to res.send: a string (its characters), a
\* Buffer (its bytes), a number (its decimal digits), an object (its
\* members, each a pair of key and value) and null.
Str(chars) == [t |-> "string", v |-> chars]

Obj(members) == [t |-> "object", v |-> members]

NullValue == [t |-> "null", v |-> <<>>]

Buffer(bytes) == [t |-> "buffer", v |-> bytes]

Number(digits) == [t |-> "number", v |-> digits]

\* /^\s*</.test(body)
RECURSIVE IsMarkup(_)
IsMarkup(chars) ==
  IF chars = <<>> THEN FALSE
  ELSE IF Head(chars) \in {" ", "\t", "\n"} THEN IsMarkup(Tail(chars))
  ELSE Head(chars) = "<"

\* JSON.stringify of a flat object, as its tokens.
RECURSIVE StringifyMembers(_)
StringifyMembers(members) ==
  LET m == Head(members) IN
  IF Len(members) = 1 THEN <<m[1], ":", m[2], "}">>
  ELSE <<m[1], ":", m[2], ",">> \o StringifyMembers(Tail(members))

JsonStringify(members) ==
  IF members = <<>> THEN <<"{", "}">> ELSE <<"{">> \o StringifyMembers(members)

\* What Node raises from end(chunk) for a chunk that is neither a string
\* nor a Buffer, and from null.toString().
InvalidArgType ==
  [name |-> "ERR_INVALID_ARG_TYPE", by |-> <<"node", 0>>,
   message |-> "The chunk argument must be of type string or Buffer",
   details |-> <<>>]

\* this.end(body) as res.send calls it.
SendEnd(s, body) ==
  IF body.t \in {"object", "number"} THEN Throws(s, InvalidArgType)
  ELSE IF body.t = "buffer"
  THEN Ok(ResEnd(s, [kind |-> "buffer", text |-> body.v, code |-> "",
                     details |-> <<>>]))
  ELSE IF body.t = "null" THEN Ok(ResEnd(s, Text(<<>>)))
  ELSE Ok(ResEnd(s, Text(body.v)))

\* res.send(body)
ResSend(s, body) ==
  IF body.t = "buffer"
  THEN IF s.res.contentType = ""
       THEN LET h == SetContentType(s, "application/octet-stream") IN
            IF h.thrown # NoErr THEN h ELSE SendEnd(h.s, body)
       ELSE SendEnd(s, body)
  ELSE IF s.res.contentType # "" THEN SendEnd(s, body)
  ELSE IF body.t = "object"
  THEN LET h == SetContentType(s, "application/json") IN
       IF h.thrown # NoErr THEN h ELSE SendEnd(h.s, Str(JsonStringify(body.v)))
  ELSE IF body.t = "string"
  THEN LET h == SetContentType(s, IF IsMarkup(body.v) THEN "text/html"
                                  ELSE "text/plain") IN
       IF h.thrown # NoErr THEN h ELSE SendEnd(h.s, body)
  ELSE IF body.t = "null" THEN Throws(s, TypeError)
  ELSE LET h == SetContentType(s, "text/plain") IN
       IF h.thrown # NoErr THEN h ELSE SendEnd(h.s, Str(body.v))

\* res.json(obj)
ResJson(s, obj) ==
  LET h == SetContentType(s, "application/json") IN
  IF h.thrown # NoErr THEN h ELSE Ok(ResEnd(h.s, obj))

\* res.set(field, value) for the Content-Type field.
ResSet(s, value) == SetContentType(s, value)

\* res.redirect(url): status 302, the Location header, end().
ResRedirect(s, url) ==
  LET s1 == [s EXCEPT !.res.statusCode = 302] IN
  IF s1.res.headersSent THEN Throws(s1, HeadersSentError)
  ELSE Ok(ResEnd([s1 EXCEPT !.res.location = url], Text("")))

\* A faulty variant of EnhanceResponse: the marker is not tested.
EnhanceResponseAgain(s) ==
  [s EXCEPT !.res.enhanced = TRUE, !.res.helpers = @ + 1]

\* _enhanceResponse(res)
EnhanceResponse(s) ==
  IF s.res.enhanced THEN s
  ELSE [s EXCEPT !.res.enhanced = TRUE, !.res.helpers = @ + 1]

\* A faulty variant of Send404: the writableEnded test is dropped.
Send404Unguarded(s) ==
  LET s1 == ResEndAgain(ResStatus(s, 404), Text("Not Found")) IN
  [s1 EXCEPT !.nfCalls = Append(@, [ended |-> s.res.writableEnded,
                                    status |-> <<s.res.statusCode, s1.res.statusCode>>,
                                    before |-> s.wire, after |-> s1.wire])]

\* _send404(req, res)
Send404(s) ==
  LET s1 == IF ~s.res.writableEnded
            THEN ResEnd(ResStatus(s, 404), Text("Not Found"))
            ELSE s
  IN [s1 EXCEPT !.nfCalls = Append(@, [ended |-> s.res.writableEnded,
                                       status |-> <<s.res.statusCode, s1.res.statusCode>>,
                                       before |-> s.wire, after |-> s1.wire])]

\* A faulty variant of HandleError: the 500 body carries the failure's message.
HandleErrorLeaksMessage(s, err) ==
  LET r == IF ~s.res.writable \/ s.res.headersSent THEN Ok(s)
           ELSE IF err.name = "CustomValidationError"
           THEN ResJson(ResStatus(s, 400),
                        Json(err.message, "VALIDATION_FAILED", err.details))
           ELSE IF app.listeners = 0 THEN Throws(s, err)
           ELSE ResJson(ResStatus([s EXCEPT !.emitted = Append(@, err)], 500),
                        Json(err.message, "SERVER_ERROR", <<>>))
  IN [s |-> [r.s EXCEPT !.errCalls =
                Append(@, [err |-> err,
                           completed |-> ~s.res.writable \/ s.res.headersSent,
                           res |-> <<s.res, r.s.res>>,
                           before |-> s.wire, after |-> r.s.wire])],
      thrown |-> r.thrown]

\* A faulty variant of HandleError: the test of a completed response is dropped.
HandleErrorUnguarded(s, err) ==
  LET r == IF err.name = "CustomValidationError"
           THEN ResJson(ResStatus(s, 400),
                        Json(err.message, "VALIDATION_FAILED", err.details))
           ELSE IF app.listeners = 0 THEN Throws(s, err)
           ELSE ResJson(ResStatus([s EXCEPT !.emitted = Append(@, err)], 500),
                        Json("Internal Server Error", "SERVER_ERROR", <<>>))
  IN [s |-> [r.s EXCEPT !.errCalls =
                Append(@, [err |-> err,
                           completed |-> ~s.res.writable \/ s.res.headersSent,
                           res |-> <<s.res, r.s.res>>,
                           before |-> s.wire, after |-> r.s.wire])],
      thrown |-> r.thrown]

\* _handleError(err, req, res); this.emit('error', err) throws err when no
\* listener is subscribed. Each call is recorded with the response before
\* and after it.
HandleError(s, err) ==
  LET r == IF ~s.res.writable \/ s.res.headersSent THEN Ok(s)
           ELSE IF err.name = "CustomValidationError"
           THEN ResJson(ResStatus(s, 400),
                        Json(err.message, "VALIDATION_FAILED", err.details))
           ELSE IF app.listeners = 0 THEN Throws(s, err)
           ELSE ResJson(ResStatus([s EXCEPT !.emitted = Append(@, err)], 500),
                        Json("Internal Server Error", "SERVER_ERROR", <<>>))
  IN [s |-> [r.s EXCEPT !.errCalls =
                Append(@, [err |-> err,
                           completed |-> ~s.res.writable \/ s.res.headersSent,
                           res |-> <<s.res, r.s.res>>,
                           before |-> s.wire, after |-> r.s.wire])],
      thrown |-> r.thrown]

\* ------------------------------------------------------- body and schema

\* JSON.parse of a flat object, the payload given as its tokens.
RECURSIVE ParseMembers(_, _)
ParseMembers(ts, acc) ==
  IF Len(ts) >= 4 /\ ts[1] \notin {"{", "}", ":", ","} /\ ts[2] = ":"
     /\ ts[3] \notin {"{", "}", ":", ","}
  THEN IF ts[4] = "}" /\ Len(ts) = 4
       THEN [ok |-> TRUE, value |-> MapSet(acc, ts[1], ts[3])]
       ELSE IF ts[4] = ","
       THEN ParseMembers(SubSeq(ts, 5, Len(ts)), MapSet(acc, ts[1], ts[3]))
       ELSE [ok |-> FALSE, value |-> EmptyMap]
  ELSE [ok |-> FALSE, value |-> EmptyMap]

JsonParse(ts) ==
  IF ts = <<"{", "}">> THEN [ok |-> TRUE, value |-> EmptyMap]
  ELSE IF Len(ts) >= 1 /\ ts[1] = "{" THEN ParseMembers(Tail(ts), EmptyMap)
  ELSE [ok |-> FALSE, value |-> EmptyMap]

NullBody == [t |-> "null", v |-> EmptyMap]

Object(map) == [t |-> "object", v |-> map]

\* _parseBody before its promise: null for GET and DELETE, {} without a
\* JSON content type, otherwise the payload has to be read first.
ParseBodyNow(r) ==
  IF r.method \in {"GET", "DELETE"} THEN [done |-> TRUE, body |-> NullBody]
  ELSE IF ~r.json THEN [done |-> TRUE, body |-> Object(EmptyMap)]
  ELSE [done |-> FALSE, body |-> NoBody]

\* _parseBody once pipeline(req, writable) has ended: resolve with the
\* parsed data, or build the CustomValidationError to reject with.
ParseBodyRead(r) ==
  IF r.payload = <<>> THEN [settled |-> "resolve", body |-> Object(EmptyMap), err |-> NoErr]
  ELSE IF JsonParse(r.payload).ok
  THEN [settled |-> "resolve", body |-> Object(JsonParse(r.payload).value), err |-> NoErr]
  ELSE LET c == CustomValidationError(
                  <<[property |-> <<>>, message |-> "Invalid JSON payload"]>>)
       IN IF c.thrown # NoErr
          THEN [settled |-> "never", body |-> NoBody, err |-> c.thrown]
          ELSE [settled |-> "reject", body |-> NoBody, err |-> c.value]

\* this._validator.validate({body, params}, schema).errors for a schema
\* that requires `name`: at its root ("root", the schema of the README), or
\* under properties.body ("body", which has type object). jsonschema reports
\* a missing required property at the path of the object that lacks it.
ValidatorErrors(r) ==
  IF app.schema = "root"
  THEN <<[property |-> <<"instance">>, message |-> "requires property name"]>>
  ELSE IF app.schema = "body" /\ r.body.t # "object"
  THEN <<[property |-> <<"instance", "body">>, message |-> "is not of a type(s) object"]>>
  ELSE IF app.schema = "body" /\ "name" \notin DOMAIN r.body.v
  THEN <<[property |-> <<"instance", "body">>, message |-> "requires property name"]>>
  ELSE <<>>

\* ------------------------------------------------------------- executor

\* What a handler function does when it is called. A handler is an input of
\* the application:
\*   callSync    calls its continuation and returns nothing
\*   callRet     calls its continuation and returns (or awaits) its promise
\*   callLater   async: awaits an operation, then calls its continuation
\*   awaitLater  async: awaits an operation, then awaits its continuation
\*   twice       calls its continuation two times and returns nothing
\*   send        res.send('x'), no continuation call
\*   throw       throws an Error
\*   reject      async: awaits an operation, then throws an Error
\*   nextErr     calls its continuation with an Error and returns nothing
\*   nextErrRet  calls its continuation with an Error and returns the result
\*   sendThrow   res.send('x'), then throws an Error
\*   validate    the handler returned by validate(schema)
Continuing == {"callSync", "callRet", "callLater", "awaitLater"}

LayerKinds ==
  Continuing \cup {"twice", "send", "throw", "reject", "nextErr", "nextErrRet",
                   "sendThrow"}

HandlerKinds == LayerKinds \cup {"validate"}

\* The handlers of the wrapped handler that runs.
RouteChain(s) ==
  IF s.wrapped.which = "mount" THEN app.mountHandlers ELSE app.routeHandlers

KindOf(s, chain, i) ==
  IF chain = "g" THEN app.globalMiddleware[i] ELSE RouteChain(s)[i]

\* A handler invocation starts: its promise is frame Len(frames) + 1.
PushFrame(s, chain, i) ==
  [s EXCEPT !.frames = Append(@, [chain |-> chain, i |-> i, st |-> "run",
                                  child |-> 0, e |-> NoErr]),
            !.log = Append(@, <<"run", chain, i>>)]

\* The promise of frame f settles: fulfilled, or rejected with e.
Settle(s, f, e) ==
  [s EXCEPT !.frames[f].st = IF e = NoErr THEN "ok" ELSE "err",
            !.frames[f].e = e]

\* Frame f returns or awaits promise p (0: a promise already fulfilled).
Await(s, f, p) ==
  IF p = 0 THEN Settle(s, f, NoErr)
  ELSE [s EXCEPT !.frames[f].st = "wait", !.frames[f].child = p]

Suspend(s, f) == [s EXCEPT !.frames[f].st = "susp"]

RECURSIVE RunLayer(_, _, _)

\* next() of _executeMiddlewareStack, without an error argument: runs the
\* layer at index and advances index; the result is the layer's promise
\* (a failure caught at line 202 is thrown again by next(error)).
StackNext(s) ==
  IF s.index > Len(app.globalMiddleware) THEN [s |-> s, p |-> 0]
  ELSE RunLayer([s EXCEPT !.index = @ + 1], "g", s.index)

\* execute(index) of _wrapHandlers; past the last handler it is next?.()
\* and no caller passes a next.
Execute(s, j) ==
  IF j > Len(RouteChain(s)) THEN [s |-> s, p |-> 0]
  ELSE RunLayer(s, "r", j)

\* The continuation handed to layer i: next, or () => execute(index + 1).
Continue(s, chain, i) ==
  LET s1 == [s EXCEPT !.log = Append(@, <<"next", chain, i>>)] IN
  IF chain = "g" THEN StackNext(s1) ELSE Execute(s1, i + 1)

\* The continuation of layer i called with a failure value: next(err)
\* throws err at line 197, so the call returns a rejected promise;
\* () => execute(index + 1) takes no argument and runs the next handler.
ContinueWith(s, chain, i, err) ==
  LET s1 == [s EXCEPT !.log = Append(@, <<"next", chain, i>>)] IN
  IF chain = "g"
  THEN [s |-> [s1 EXCEPT !.frames = Append(@, [chain |-> "next", i |-> i,
                                               st |-> "err", child |-> 0,
                                               e |-> err])],
        p |-> Len(s1.frames) + 1]
  ELSE Execute(s1, i + 1)

\* layer(req, res, next) / handler(req, res, () => execute(index + 1)) up
\* to its return: the synchronous part of the handler and of every handler
\* its continuation calls start.
RunLayer(s, chain, i) ==
  LET f == Len(s.frames) + 1
      s0 == PushFrame(s, chain, i)
      k == KindOf(s, chain, i)
  IN CASE k = "callSync" ->
            [s |-> Settle(Continue(s0, chain, i).s, f, NoErr), p |-> f]
       [] k = "callRet" ->
            LET r == Continue(s0, chain, i) IN [s |-> Await(r.s, f, r.p), p |-> f]
       [] k = "twice" ->
            LET r == Continue(Continue(s0, chain, i).s, chain, i) IN
            [s |-> Settle(r.s, f, NoErr), p |-> f]
       [] k \in {"callLater", "awaitLater", "reject"} ->
            [s |-> Suspend(s0, f), p |-> f]
       [] k = "send" ->
            LET r == ResSend(s0, Str(<<"x">>)) IN [s |-> Settle(r.s, f, r.thrown), p |-> f]
       [] k = "throw" ->
            [s |-> Settle(s0, f, HandlerError(chain, i)), p |-> f]
       [] k = "nextErr" ->
            LET r == ContinueWith(s0, chain, i, ContinuationError(chain, i)) IN
            [s |-> Settle(r.s, f, NoErr), p |-> f]
       [] k = "nextErrRet" ->
            LET r == ContinueWith(s0, chain, i, ContinuationError(chain, i)) IN
            [s |-> Await(r.s, f, r.p), p |-> f]
       [] k = "sendThrow" ->
            LET r == ResSend(s0, Str(<<"x">>)) IN
            [s |-> Settle(r.s, f, IF r.thrown # NoErr THEN r.thrown
                                  ELSE HandlerError(chain, i)),
             p |-> f]
       [] k = "validate" ->
            LET errors == ValidatorErrors(s0.req)
                c == CustomValidationError(errors)
            IN IF errors = <<>> THEN [s |-> Settle(s0, f, NoErr), p |-> f]
               ELSE IF c.thrown # NoErr THEN [s |-> Settle(s0, f, c.thrown), p |-> f]
               ELSE [s |-> Settle(s0, f, c.value), p |-> f]

\* The operation a suspended handler awaits has settled: the handler runs
\* on to its return.
Resume(s, f) ==
  LET chain == s.frames[f].chain
      i == s.frames[f].i
      k == KindOf(s, chain, i)
  IN CASE k = "callLater" -> Settle(Continue(s, chain, i).s, f, NoErr)
       [] k = "awaitLater" ->
            LET r == Continue(s, chain, i) IN Await(r.s, f, r.p)
       [] k = "reject" -> Settle(s, f, HandlerError(chain, i))

\* ------------------------------------------------------------ dispatcher

\* The route the application registers with get/post, and the path it
\* mounts a handler on with use(path, handler).
RoutePattern == <<"/", "u", "/", ":", "i">>

MountPath == <<"/", "s">>

\* find-my-way drops the query string of the url before it matches.
RECURSIVE UpToQuery(_)
UpToQuery(url) ==
  IF url = <<>> \/ Head(url) = "?" THEN <<>>
  ELSE <<Head(url)>> \o UpToQuery(Tail(url))

\* find-my-way: a literal segment matches itself, a ':name' segment any
\* non-empty segment; slashes are significant.
RouterMatches(pattern, url) ==
  LET P == Split(pattern)
      S == Split(UpToQuery(url))
  IN /\ Len(P) = Len(S)
     /\ \A j \in 1..Len(P) :
          IF StartsWithColon(P[j]) THEN S[j] # <<>> ELSE S[j] = P[j]

RouterParams(pattern, url) ==
  LET P == Split(pattern)
      S == Split(UpToQuery(url))
  IN [n \in { Tail(P[j]) : j \in { j \in 1..Len(P) : StartsWithColon(P[j]) } } |->
        S[CHOOSE j \in 1..Len(P) : StartsWithColon(P[j]) /\ Tail(P[j]) = n]]

\* execute(0) of the wrapped handler, once req.body is set.
StartChain(s) ==
  LET r == Execute(s, 1) IN [r.s EXCEPT !.wpc = "route", !.wchild = r.p]

\* The function _wrapHandlers returns, up to its first suspension.
Wrapped(s, which, awaited, params) ==
  LET s1 == [s EXCEPT !.wrapped = [which |-> which, awaited |-> awaited,
                                   err |-> NoErr],
                      !.req.params = params]
      pb == ParseBodyNow(s1.req)
  IN IF pb.done THEN StartChain([s1 EXCEPT !.req.body = pb.body])
     ELSE [s1 EXCEPT !.wpc = "body"]

\* this.router.lookup(req, res): the handler mounted with use(path, ...),
\* the route registered with _addRoute, or the default route _send404.
RouterLookup(s) ==
  IF app.mountHandlers # <<>> /\ RouterMatches(MountPath, s.req.url)
  THEN Wrapped(s, "mount", FALSE, EmptyMap)
  ELSE IF s.req.method = app.routeMethod /\ RouterMatches(RoutePattern, s.req.url)
  THEN Wrapped(s, "route", FALSE, RouterParams(RoutePattern, s.req.url))
  ELSE Send404(s)

\* A faulty variant of ExecuteRouteHandlers: a trie miss is not passed on to the router.
ExecuteRouteHandlersNoLookup(s) ==
  LET route == TrieCacheGet(trie, s.req.method, s.req.url) IN
  IF route.found
  THEN Wrapped([s EXCEPT !.hpc = "route"], "route", TRUE, route.params)
  ELSE [s EXCEPT !.hpc = "done"]

\* _executeRouteHandlers(req, res)
ExecuteRouteHandlers(s) ==
  LET route == TrieCacheGet(trie, s.req.method, s.req.url) IN
  IF route.found
  THEN Wrapped([s EXCEPT !.hpc = "route"], "route", TRUE, route.params)
  ELSE RouterLookup([s EXCEPT !.hpc = "done"])

Settled(s, f) == f = 0 \/ s.frames[f].st \in {"ok", "err"}

Failure(s, f) == IF f = 0 THEN NoErr ELSE s.frames[f].e

\* _handleRequest after await _executeMiddlewareStack: the route handlers,
\* or the catch at line 258.
AfterGlobal(s) ==
  IF Failure(s, s.hchild) = NoErr THEN ExecuteRouteHandlers(s)
  ELSE LET r == HandleError(s, Failure(s, s.hchild)) IN
       [r.s EXCEPT !.hpc = IF r.thrown = NoErr THEN "done" ELSE "escaped"]

\* The wrapped handler after await execute(0): its return, or its catch at
\* line 228; a failure thrown by _handleError leaves the wrapped handler.
AfterChain(s) ==
  IF Failure(s, s.wchild) = NoErr THEN [s EXCEPT !.wpc = "done"]
  ELSE LET r == HandleError(s, Failure(s, s.wchild)) IN
       IF r.thrown = NoErr THEN [r.s EXCEPT !.wpc = "done"]
       ELSE [r.s EXCEPT !.wpc = "failed", !.wrapped.err = r.thrown]

\* _handleRequest after await route.handler(...): its return, or the catch
\* at line 258.
AfterWrapped(s) ==
  IF s.wpc = "done" THEN [s EXCEPT !.hpc = "done"]
  ELSE LET r == HandleError(s, s.wrapped.err) IN
       [r.s EXCEPT !.hpc = IF r.thrown = NoErr THEN "done" ELSE "escaped"]

\* A promise that something awaits: the caller of next() or execute()
\* returned or awaited it, or it is awaited by _handleRequest or by the
\* wrapped handler.
Awaited(s, f) ==
  \/ f = s.hchild
  \/ f = s.wchild
  \/ \E g \in 1..Len(s.frames) : s.frames[g].child = f

\* The promise reactions that run before the next event: awaiting frames
\* take the outcome of the promise they await, _handleRequest and the
\* wrapped handler go on after their await, and a rejection that nothing
\* awaits is lost.
\* One promise reaction, or s itself when none is left.
DrainStep(s) ==
  LET waiting == { f \in 1..Len(s.frames) :
                     s.frames[f].st = "wait" /\ Settled(s, s.frames[f].child) }
      lost == { f \in 1..Len(s.frames) :
                  s.frames[f].st = "err" /\ ~Awaited(s, f) }
  IN IF waiting # {}
     THEN LET f == SetMin(waiting) IN
          Settle(s, f, s.frames[s.frames[f].child].e)
     ELSE IF s.hpc = "global" /\ Settled(s, s.hchild) THEN AfterGlobal(s)
     ELSE IF s.wpc = "route" /\ Settled(s, s.wchild) THEN AfterChain(s)
     ELSE IF s.hpc = "route" /\ s.wpc \in {"done", "failed"} /\ s.wrapped.awaited
     THEN AfterWrapped(s)
     ELSE IF s.wpc = "failed" /\ ~s.wrapped.awaited
     THEN [s EXCEPT !.wpc = "lost", !.unhandled = Append(@, s.wrapped.err)]
     ELSE IF lost # {}
     THEN LET f == SetMin(lost) IN
          [s EXCEPT !.frames[f].st = "lost",
                    !.unhandled = Append(@, s.frames[f].e)]
     ELSE s

RECURSIVE Drain(_)
Drain(s) ==
  CHOOSE r \in { IF n = v THEN v ELSE Drain(n) :
                   n \in { DrainStep(v) : v \in {s} }, v \in {s} } : TRUE

\* _handleRequest(req, res) up to its first suspension.
HandleRequestStart(s) ==
  LET s1 == EnhanceResponse(s)
      r == StackNext([s1 EXCEPT !.hpc = "global"])
  IN [r.s EXCEPT !.hchild = r.p]

\* pipeline(req, writable) has ended in _parseBody.
PipelineEnded(s) ==
  LET pr == ParseBodyRead(s.req) IN
  IF pr.settled = "resolve" THEN StartChain([s EXCEPT !.req.body = pr.body])
  ELSE IF pr.settled = "reject"
  THEN LET r == HandleError(s, pr.err) IN
       IF r.thrown = NoErr THEN [r.s EXCEPT !.wpc = "done"]
       ELSE [r.s EXCEPT !.wpc = "failed", !.wrapped.err = r.thrown]
  ELSE [s EXCEPT !.wpc = "stuck", !.unhandled = Append(@, pr.err)]

\* ------------------------------------------------------------------ events

\* An event runs its callback and then every promise reaction that is
\* ready, as one step.
RunToIdle(s) == \E t \in {s} : \E u \in {Drain(t)} : Commit(u)

\* The server hands the request to _handleRequest.
HandleRequest ==
  /\ hpc = "idle"
  /\ RunToIdle(HandleRequestStart(Cur))
  /\ UNCHANGED <<trieVars, app, jarVars, peer>>

\* The operation a suspended handler awaits settles.
ResumeHandler(f) ==
  /\ frames[f].st = "susp"
  /\ RunToIdle(Resume(Cur, f))
  /\ UNCHANGED <<trieVars, app, jarVars, peer>>

\* The request payload has been read to its end.
PipelineEnd ==
  /\ wpc = "body"
  /\ RunToIdle(PipelineEnded(Cur))
  /\ UNCHANGED <<trieVars, app, jarVars, peer>>

Next ==
  \/ HandleRequest
  \/ \E f \in 1..Len(frames) : ResumeHandler(f)
  \/ PipelineEnd

\* -------------------------------------------------------------- scenarios

SeqsUpTo(S, n) == UNION { [1..k -> S] : k \in 0..n }

\* _applyCoreMiddleware: helmet and compression, registered first; both
\* call next() and return nothing.
CoreMiddleware == <<"callSync", "callSync">>

Payloads ==
  { <<>>,
    <<"{", "}">>,
    <<"{", "name", ":", "v", "}">>,
    <<"{", "a", ":", "v", "}">>,
    <<"{", "a">> }

\* The urls of requests: the route's path, alone and followed by a query
\* string, the mounted path, and a path nothing is registered for.
ReqUrls ==
  { <<"/", "u", "/", "7">>, <<"/", "u", "/", "7", "?", "x">>, MountPath,
    <<"/", "x">> }

\* What _addRoute and use(path, ...) leave in the trie and in the router
\* for an application with its one route.
RouteTrie(a) == TrieCacheAdd(TrieCache, a.routeMethod, RoutePattern, 1)

RouteRegs(a) == <<[method |-> a.routeMethod, path |-> RoutePattern, handler |-> 1]>>

RouteRouter(a) ==
  {[method |-> a.routeMethod, path |-> RoutePattern]}
  \cup (IF a.mountHandlers = <<>> THEN {}
        ELSE { [method |-> m, path |-> MountPath] :
                 m \in {"GET", "POST", "PUT", "DELETE"} })

\* The application registered its one route: _addRoute added it to the trie.
Registered ==
  /\ trie = RouteTrie(app)
  /\ regs = RouteRegs(app)
  /\ found = NoLookup
  /\ router = RouteRouter(app)
  /\ JarNew

\* Any global middleware before a route ending in res.send; a GET request
\* that hits the route, the mounted handler, or nothing.
GlobalApps ==
  { [globalMiddleware |-> CoreMiddleware \o u, routeMethod |-> "GET",
     routeHandlers |-> <<"send">>, mountHandlers |-> mount,
     schema |-> "none", listeners |-> n] :
      u \in SeqsUpTo(LayerKinds, MaxGlobal), mount \in {<<>>, <<"send">>},
      n \in {0, 1} }

GlobalReqs(a) == { [NoReq EXCEPT !.method = "GET", !.url = url] : url \in ReqUrls }

InitGlobal ==
  /\ app \in GlobalApps
  /\ \E r \in GlobalReqs(app) : RequestIdle(r)
  /\ Registered
  /\ peer = NoPeer

\* Only the core middleware before any route chain; a request that hits
\* the route, with any payload.
RouteApps ==
  { a \in { [globalMiddleware |-> CoreMiddleware, routeMethod |-> m,
             routeHandlers |-> c, mountHandlers |-> <<>>,
             schema |-> sch, listeners |-> n] :
              c \in SeqsUpTo(HandlerKinds, MaxHandlers) \ {<<>>}, m \in Methods,
              sch \in {"none", "root", "body"}, n \in {0, 1} } :
      (a.schema = "none")
        = (\A k \in 1..Len(a.routeHandlers) : a.routeHandlers[k] # "validate") }

RouteReqs(a) ==
  { r \in { [NoReq EXCEPT !.method = a.routeMethod,
                          !.url = <<"/", "u", "/", "7">>,
                          !.json = json, !.payload = payload] :
              json \in BOOLEAN, payload \in Payloads } :
      r.json \/ r.payload = <<>> }

InitRoute ==
  /\ app \in RouteApps
  /\ \E r \in RouteReqs(app) : RequestIdle(r)
  /\ Registered
  /\ peer = NoPeer

Init == InitGlobal \/ InitRoute

Spec == Init /\ [][Next]_vars

\* ------------------------------------------------------ concurrent requests
\* Two requests handled at the same time by the one application. Each call
\* of _handleRequest has its own req and res, its own index (a local of
\* _executeMiddlewareStack) and its own handler invocations; trie and app
\* are shared. Events of the two requests interleave in any order.

\* The context of a request that _handleRequest has not been given yet.
Context(r) ==
  [req |-> r, res |-> NewRes, wire |-> <<>>, index |-> 1, frames |-> <<>>,
   hpc |-> "idle", hchild |-> 0, wpc |-> "none", wrapped |-> NoWrapped,
   wchild |-> 0, log |-> <<>>, errCalls |-> <<>>, nfCalls |-> <<>>,
   emitted |-> <<>>, unhandled |-> <<>>]

\* A faulty variant of PeerRunToIdle: the index of _executeMiddlewareStack
\* is one field shared by the requests.
PeerRunToIdleSharedIndex(s) ==
  \E t \in {[s EXCEPT !.index = index]} : \E u \in {Drain(t)} :
    /\ peer' = u
    /\ index' = u.index
    /\ UNCHANGED <<trieVars, app, req, res, wire, frames, hpc, hchild, wpc,
                   wrapped, wchild, log, errCalls, nfCalls, emitted, unhandled,
                   jarVars>>

\* An event of the second request runs its callback and then every promise
\* reaction that is ready; nothing of the first request is touched.
PeerRunToIdle(s) ==
  \E t \in {s} : \E u \in {Drain(t)} :
    /\ peer' = u
    /\ UNCHANGED <<trieVars, reqVars, jarVars>>

PeerHandleRequest ==
  /\ peer.hpc = "idle"
  /\ PeerRunToIdle(HandleRequestStart(peer))

PeerResumeHandler(f) ==
  /\ peer.frames[f].st = "susp"
  /\ PeerRunToIdle(Resume(peer, f))

PeerPipelineEnd ==
  /\ peer.wpc = "body"
  /\ PeerRunToIdle(PipelineEnded(peer))

\* Global middleware that continues, at once or after an awaited
\* operation, before a POST route whose handlers respond at once or after
\* an awaited operation.
PeerApps ==
  { [globalMiddleware |-> CoreMiddleware \o u, routeMethod |-> "POST",
     routeHandlers |-> c, mountHandlers |-> <<>>,
     schema |-> "none", listeners |-> 1] :
      u \in SeqsUpTo(Continuing, MaxGlobal),
      c \in {<<"send">>, <<"awaitLater", "send">>} }

\* The two requests: different parameter values and different payloads.
FirstReq ==
  [NoReq EXCEPT !.method = "POST", !.url = <<"/", "u", "/", "7">>,
                !.json = TRUE, !.payload = <<"{", "name", ":", "v", "}">>]

SecondReq ==
  [NoReq EXCEPT !.method = "POST", !.url = <<"/", "u", "/", "8">>,
                !.json = TRUE, !.payload = <<"{", "a", ":", "v", "}">>]

InitPeers ==
  /\ app \in PeerApps
  /\ RequestIdle(FirstReq)
  /\ Registered
  /\ peer = Context(SecondReq)

NextPeers ==
  \/ Next
  \/ PeerHandleRequest
  \/ \E f \in 1..Len(peer.frames) : PeerResumeHandler(f)
  \/ PeerPipelineEnd

SpecPeers == InitPeers /\ [][NextPeers]_vars

\* The same program from the start of the process: the application is set
\* up (use, get, post, on) and the first request arrives; then the event
\* loop runs every event that is ready: the request is handed over, the
\* payload is read to its end, awaited operations settle.
Setup ==
  /\ app = NoApp
  /\ \E a \in GlobalApps \cup RouteApps :
       /\ app' = a
       /\ req' \in IF a \in GlobalApps THEN GlobalReqs(a) ELSE RouteReqs(a)
       /\ trie' = RouteTrie(a)
       /\ regs' = RouteRegs(a)
       /\ router' = RouteRouter(a)
  /\ UNCHANGED <<found, res, wire, index, frames, hpc, hchild, wpc, wrapped,
                 wchild, log, errCalls, nfCalls, emitted, unhandled, jarVars, peer>>

NextLive ==
  \/ Setup
  \/ app # NoApp /\ Next

SpecLive == InitTrie /\ [][NextLive]_vars /\ WF_vars(NextLive)

\* -------------------------------------------------------- response helpers
\* A response object on its own: _enhanceResponse and the helpers it
\* installs, called in any order; log keeps every call with the response
\* and the wire before and after it.

MaxCalls == 4

InitResponse ==
  /\ trie = TrieCache
  /\ regs = <<>>
  /\ found = NoLookup
  /\ router = {}
  /\ app = NoApp
  /\ RequestIdle(NoReq)
  /\ JarNew
  /\ peer = NoPeer

\* The values given to res.send.
SendBodies ==
  { Str(<<"x">>), Str(<<" ", "<", "p">>), Str(<<"x", "<">>), Str(<<>>),
    Buffer(<<"b">>), Number(<<"4", "2">>),
    Obj(<<>>), Obj(<<<<"a", "v">>>>), NullValue }

\* One call on the response: op names it, arg is its argument, r is its
\* outcome.
HelperCall(op, arg, r) ==
  /\ Len(log) < MaxCalls
  /\ Commit([r.s EXCEPT !.log = Append(@, [op |-> op, arg |-> arg,
                                           res |-> <<res, r.s.res>>,
                                           wire |-> <<wire, r.s.wire>>,
                                           thrown |-> r.thrown])])
  /\ UNCHANGED <<trieVars, app, jarVars, peer>>

Enhance == HelperCall("enhance", <<>>, Ok(EnhanceResponse(Cur)))

CallStatus(code) ==
  res.enhanced /\ HelperCall("status", code, Ok(ResStatus(Cur, code)))

CallSend(body) == res.enhanced /\ HelperCall("send", body, ResSend(Cur, body))

CallJson ==
  res.enhanced /\ HelperCall("json", <<>>, ResJson(Cur, Json("x", "", <<>>)))

CallSet ==
  res.enhanced /\ HelperCall("set", "text/html", ResSet(Cur, "text/html"))

CallRedirect ==
  res.enhanced /\ HelperCall("redirect", "/login", ResRedirect(Cur, "/login"))

NextResponse ==
  \/ Enhance
  \/ \E code \in {201, 500} : CallStatus(code)
  \/ \E body \in SendBodies : CallSend(body)
  \/ CallJson
  \/ CallSet
  \/ CallRedirect

SpecResponse == InitResponse /\ [][NextResponse]_vars

\* ------------------------------------------------------------- rateLimit
\* The middleware functions returned by rateLimit(max, windowMs) of the one
\* BiscuitsJar the module exports, called for requests of several
\* addresses while the clock advances; log keeps every call.

\* Largest number of calls of rate-limit middleware.
MaxRequests == 5

\* Latest clock value (milliseconds).
MaxTime == 4

\* req.socket.remoteAddress
Addresses == {"a", "b"}

\* The middleware created: rateLimit(2, 3) and rateLimit(1, 1).
Limiters == { [max |-> 2, windowMs |-> 3], [max |-> 1, windowMs |-> 1] }

TooManyRequests ==
  [name |-> "Error", by |-> <<>>, message |-> "Too many requests", details |-> <<>>]

InitRate ==
  /\ trie = TrieCache
  /\ regs = <<>>
  /\ found = NoLookup
  /\ router = {}
  /\ app = NoApp
  /\ RequestIdle(NoReq)
  /\ JarNew
  /\ peer = NoPeer

\* One call (req, res, next) of the middleware m for a request from ip.
\* The object read from the store is changed in place, so the store holds
\* the new count even when the call throws before rateLimitStore.set.
RateLimit(m, ip) ==
  LET stored == ip \in DOMAIN rateLimitStore
      current == IF stored THEN rateLimitStore[ip] ELSE [count |-> 0, start |-> now]
      window == IF now - current.start > m.windowMs
                THEN [count |-> 0, start |-> now]
                ELSE current
      counted == [window EXCEPT !.count = @ + 1]
      over == counted.count > m.max
  IN /\ Len(log) < MaxRequests
     /\ rateLimitStore' = IF over /\ ~stored THEN rateLimitStore
                          ELSE MapSet(rateLimitStore, ip, counted)
     /\ log' = Append(log, [op |-> "rateLimit", limiter |-> m, ip |-> ip,
                            at |-> now, start |-> counted.start,
                            store |-> <<rateLimitStore, rateLimitStore'>>,
                            next |-> ~over,
                            thrown |-> IF over THEN TooManyRequests ELSE NoErr])
     /\ UNCHANGED <<trieVars, app, req, res, wire, index, frames, hpc, hchild,
                    wpc, wrapped, wchild, errCalls, nfCalls, emitted, unhandled,
                    now, timer, peer>>

\* A millisecond passes.
Tick ==
  /\ now < MaxTime
  /\ now' = now + 1
  /\ UNCHANGED <<trieVars, reqVars, rateLimitStore, timer, peer>>

NextRate ==
  \/ \E m \in Limiters, ip \in Addresses : RateLimit(m, ip)
  \/ Tick

SpecRate == InitRate /\ [][NextRate]_vars

\* --------------------------------------------------------------- timeout
\* A response under the middleware returned by timeout(delay): the handlers
\* after it call the response helpers, the timer may expire at any moment
\* until it is cleared, and the response emits 'finish' at some moment
\* after its end; log keeps every call and event.

\* One event on the response: op names it, r is its outcome.
TimeoutEvent(op, r, t) ==
  /\ Commit([r.s EXCEPT !.log = Append(@, [op |-> op, arg |-> <<>>,
                                           res |-> <<res, r.s.res>>,
                                           wire |-> <<wire, r.s.wire>>,
                                           thrown |-> r.thrown]),
                        !.unhandled = IF r.thrown = NoErr THEN @
                                      ELSE Append(@, r.thrown)])
  /\ timer' = t
  /\ UNCHANGED <<trieVars, app, rateLimitStore, now, peer>>

\* The middleware (req, res, next): setTimeout, res.on('finish', ...), next().
TimeoutMiddleware ==
  /\ res.enhanced
  /\ timer = "none"
  /\ TimeoutEvent("timeout", Ok(Cur), "set")

\* The timer's callback: res.status(408).send('Request timeout'), then
\* req.destroy(); a failure of send leaves the callback uncaught.
TimerExpires ==
  /\ timer = "set"
  /\ TimeoutEvent("timer",
                  ResSend(ResStatus(Cur, 408), Str(<<"Request timeout">>)),
                  "fired")

\* The response emits 'finish' once, after res.end; the listener clears
\* the timer.
Finish ==
  /\ res.writableEnded
  /\ \A k \in 1..Len(log) : log[k].op # "finish"
  /\ TimeoutEvent("finish", Ok(Cur), IF timer = "set" THEN "cleared" ELSE timer)

\* The dispatcher finds no route for the request.
CallSend404 == res.enhanced /\ HelperCall("send404", <<>>, Ok(Send404(Cur)))

NextTimeout ==
  \/ NextResponse
  \/ CallSend404
  \/ TimeoutMiddleware
  \/ TimerExpires
  \/ Finish

SpecTimeout == InitResponse /\ [][NextTimeout]_vars

\* ------------------------------------------------- route trie: properties

\* The segments of a path as the specification defines them: the maximal
\* runs of characters other than '/', in order.
RunLen(p) ==
  CHOOSE n \in 1..Len(p) :
    /\ \A k \in 1..n : p[k] # "/"
    /\ n = Len(p) \/ p[n + 1] = "/"

RECURSIVE Segs(_)
Segs(p) ==
  IF p = <<>> THEN <<>>
  ELSE IF Head(p) = "/" THEN Segs(Tail(p))
  ELSE <<SubSeq(p, 1, RunLen(p))>> \o Segs(SubSeq(p, RunLen(p) + 1, Len(p)))

IsParam(seg) == seg[1] = ":"

IsLiteralPattern(path) == \A j \in 1..Len(Segs(path)) : ~IsParam(Segs(path)[j])

\* Patterns P and Q reach the same trie position after n segments.
SamePosition(P, Q, n) ==
  /\ Len(P) >= n
  /\ Len(Q) >= n
  /\ \A j \in 1..n : \/ IsParam(P[j]) /\ IsParam(Q[j])
                     \/ ~IsParam(P[j]) /\ P[j] = Q[j]

\* The registrations of exactly this (method, path) pair, by their segments.
RegsOfPair(method, path) ==
  { k \in 1..Len(regs) :
      regs[k].method = method /\ Segs(regs[k].path) = Segs(path) }

Hit(handler, params) == [found |-> TRUE, handler |-> handler, params |-> params]

\* C5: while every registered route has only literal segments, a lookup
\* returns the handler chain registered (last) for exactly that (method,
\* path) pair with an empty parameter mapping, and not-found for every pair
\* that was not registered.
C5_LiteralLookupExact ==
  (found # NoLookup /\ \A k \in 1..Len(regs) : IsLiteralPattern(regs[k].path))
  => LET ks == RegsOfPair(found.method, found.path) IN
     IF ks = {} THEN found.result = Null
     ELSE found.result = Hit(regs[SetMax(ks)].handler, EmptyMap)

\* A lookup of a registered literal pair among literal routes was made, and
\* so was a lookup of an unregistered pair.
C5_Witness ==
  /\ found # NoLookup
  /\ Len(regs) >= 2
  /\ \A k \in 1..Len(regs) : IsLiteralPattern(regs[k].path)
  /\ found.result.found
  /\ found.result.handler = 1
  /\ found.path # regs[1].path

\* The lookup path has the pattern's number of segments, equals it on the
\* literal segments, and no literal sibling equals the path's segment at a
\* parameter position.
MatchesPattern(k, method, path) ==
  LET P == Segs(regs[k].path)
      S == Segs(path)
  IN /\ regs[k].method = method
     /\ ~IsLiteralPattern(regs[k].path)
     /\ Len(S) = Len(P)
     /\ \A j \in 1..Len(P) : ~IsParam(P[j]) => S[j] = P[j]
     /\ \A j \in 1..Len(P) : IsParam(P[j]) =>
          ~\E q \in 1..Len(regs) :
             LET Q == Segs(regs[q].path) IN
             /\ Len(Q) >= j
             /\ SamePosition(P, Q, j - 1)
             /\ ~IsParam(Q[j])
             /\ Q[j] = S[j]

\* The pattern's own parameter names bound to the path's segments.
RECURSIVE OwnParams(_, _, _)
OwnParams(P, S, j) ==
  IF j = 0 THEN EmptyMap
  ELSE IF IsParam(P[j]) THEN MapSet(OwnParams(P, S, j - 1), Tail(P[j]), S[j])
  ELSE OwnParams(P, S, j - 1)

\* The name the first registration gave to the parameter at position j of P.
FirstName(P, j) ==
  LET qs == { q \in 1..Len(regs) :
                /\ SamePosition(P, Segs(regs[q].path), j - 1)
                /\ Len(Segs(regs[q].path)) >= j
                /\ IsParam(Segs(regs[q].path)[j]) }
  IN Tail(Segs(regs[SetMin(qs)].path)[j])

RECURSIVE FirstParams(_, _, _)
FirstParams(P, S, j) ==
  IF j = 0 THEN EmptyMap
  ELSE IF IsParam(P[j]) THEN MapSet(FirstParams(P, S, j - 1), FirstName(P, j), S[j])
  ELSE FirstParams(P, S, j - 1)

\* The registrations for this method whose pattern has the shape of P.
RegsOfShape(method, P) ==
  { q \in 1..Len(regs) :
      /\ regs[q].method = method
      /\ Len(Segs(regs[q].path)) = Len(P)
      /\ SamePosition(P, Segs(regs[q].path), Len(P)) }

\* C6 as stated: a path matching a parameterised pattern resolves to the
\* handler chain registered for that pattern and binds each parameter name
\* of the pattern to the segment at its position.
C6_ParamLookupOwnNames ==
  \A k \in 1..Len(regs) :
    (found # NoLookup /\ MatchesPattern(k, found.method, found.path))
    => found.result =
         Hit(regs[SetMax(RegsOfPair(regs[k].method, regs[k].path))].handler,
             OwnParams(Segs(regs[k].path), Segs(found.path),
                       Len(Segs(found.path))))

\* C6 amended: a path matching a parameterised pattern resolves to the
\* handler chain registered last, for that method, under a pattern of the
\* same shape, and binds at each parameter position the name given by the
\* first registration at that trie position to the segment at the position.
C6_ParamLookupFirstNames ==
  \A k \in 1..Len(regs) :
    (found # NoLookup /\ MatchesPattern(k, found.method, found.path))
    => found.result =
         Hit(regs[SetMax(RegsOfShape(regs[k].method, Segs(regs[k].path)))].handler,
             FirstParams(Segs(regs[k].path), Segs(found.path),
                         Len(Segs(found.path))))

\* A two-parameter pattern was looked up and both segments were captured.
C6_Witness ==
  /\ found # NoLookup
  /\ \E k \in 1..Len(regs) :
       /\ MatchesPattern(k, found.method, found.path)
       /\ Len(Segs(regs[k].path)) = 2
       /\ IsParam(Segs(regs[k].path)[1])
       /\ IsParam(Segs(regs[k].path)[2])
  /\ found.result.found
  /\ Cardinality(DOMAIN found.result.params) = 2

\* Some registered pattern puts a parameter at a position the literal path
\* S passes through.
HasDynamicSibling(S) ==
  \E q \in 1..Len(regs), j \in 1..Len(S) :
    LET Q == Segs(regs[q].path) IN
    /\ Len(Q) >= j
    /\ IsParam(Q[j])
    /\ \A i \in 1..(j - 1) : Q[i] = S[i]

\* C7: when a literal route and a dynamic route meet at a trie position, the
\* lookup of the literal route's path resolves to the literal route's
\* handler chain with no captured parameter, whatever the order of the two
\* registrations.
C7_StaticPrecedence ==
  LET ks == { k \in RegsOfPair(found.method, found.path) :
                IsLiteralPattern(regs[k].path) }
  IN (found # NoLookup /\ ks # {} /\ HasDynamicSibling(Segs(found.path)))
     => found.result = Hit(regs[SetMax(ks)].handler, EmptyMap)

\* The literal route was registered after the dynamic one at the same
\* position, for the same method, and its path was looked up.
C7_Witness ==
  /\ found # NoLookup
  /\ Len(regs) >= 2
  /\ ~IsLiteralPattern(regs[1].path)
  /\ IsLiteralPattern(regs[2].path)
  /\ regs[1].method = regs[2].method
  /\ Len(Segs(regs[1].path)) = Len(Segs(regs[2].path))
  /\ Len(Segs(regs[2].path)) >= 1
  /\ IsParam(Segs(regs[1].path)[1])
  /\ found.method = regs[2].method
  /\ found.path = regs[2].path
  /\ found.result.found
  /\ found.result.handler = 2

\* ------------------------------------------- route trie: more properties

\* The segments of every registered pattern, in registration order.
RegSegs == [q \in 1..Len(regs) |-> Segs(regs[q].path)]

\* The registrations (of patterns R) whose pattern the lookup of segments S
\* is still on after j segments, when at each position a literal segment
\* equal to the path's is preferred and the choice made is never revised.
RECURSIVE OnWalk(_, _, _)
OnWalk(R, S, j) ==
  IF j = 0 THEN DOMAIN R
  ELSE LET before == { q \in OnWalk(R, S, j - 1) : Len(R[q]) >= j }
           literal == { q \in before : ~IsParam(R[q][j]) /\ R[q][j] = S[j] }
       IN IF literal # {} THEN literal
          ELSE { q \in before : IsParam(R[q][j]) }

\* The registrations the walk ends on: for this method, of the path's length.
WalkEnd(R, method, S) ==
  { q \in OnWalk(R, S, Len(S)) : regs[q].method = method /\ Len(R[q]) = Len(S) }

\* Pattern k, read on its own, matches the whole path: same method, same
\* number of segments, equal literal segments.
MatchesAlone(k, method, path) ==
  LET P == Segs(regs[k].path)
      S == Segs(path)
  IN /\ regs[k].method = method
     /\ Len(S) = Len(P)
     /\ \A j \in 1..Len(P) : ~IsParam(P[j]) => S[j] = P[j]

\* C25: lookup never backtracks: a literal child equal to the current
\* segment is always taken, and when the remaining segments do not match
\* below it the lookup is not-found, even when a registered pattern with a
\* parameter at that position matches the whole path.
C25_NoBacktracking ==
  found # NoLookup
  => LET ks == WalkEnd(RegSegs, found.method, Segs(found.path)) IN
     IF ks = {} THEN found.result = Null
     ELSE /\ found.result.found
          /\ found.result.handler = regs[SetMax(ks)].handler

\* A lookup was not-found below a literal child although a registered
\* pattern with a parameter at that position matches the whole path.
C25_Witness ==
  /\ found # NoLookup
  /\ found.result = Null
  /\ Len(Segs(found.path)) >= 2
  /\ \E k \in 1..Len(regs) :
       /\ MatchesAlone(k, found.method, found.path)
       /\ IsParam(Segs(regs[k].path)[1])
       /\ \E q \in 1..Len(regs) :
            /\ ~IsParam(Segs(regs[q].path)[1])
            /\ Segs(regs[q].path)[1] = Segs(found.path)[1]

\* The trie node that the first j segments of pattern P lead to.
RECURSIVE NodeAt(_, _)
NodeAt(P, j) ==
  IF j = 0 THEN Root
  ELSE LET n == NodeAt(P, j - 1) IN
       IF IsParam(P[j]) THEN trie[n].dynamicChild
       ELSE trie[n].staticChildren[P[j]]

\* The name that the first of the registrations R with a parameter at
\* position j of pattern P gave to it.
NameAt(R, P, j) ==
  Tail(R[SetMin({ q \in DOMAIN R : /\ Len(R[q]) >= j
                                    /\ IsParam(R[q][j])
                                    /\ SamePosition(P, R[q], j - 1) })][j])

\* C26 as stated: a trie node holds at most one dynamic child, its name is
\* the one given by the first registration at that position, and every
\* lookup through the position records the segment of that position under
\* the first name.
C26_FirstNameAlways ==
  LET R == RegSegs IN
  /\ Cardinality({ n \in 1..Len(trie) : trie[n].paramName # NoName })
       = Cardinality({ n \in 1..Len(trie) : trie[n].dynamicChild # 0 })
  /\ \A k \in DOMAIN R : \A j \in 1..Len(R[k]) :
       IsParam(R[k][j]) => trie[NodeAt(R[k], j)].paramName = NameAt(R, R[k], j)
  /\ (found # NoLookup /\ found.result.found)
     => LET S == Segs(found.path)
            on == [j \in 1..Len(S) |-> OnWalk(R, S, j)]
            dyn == { j \in 1..Len(S) : IsParam(R[SetMin(on[j])][j]) }
            name == [j \in dyn |-> NameAt(R, R[SetMin(on[j])], j)]
        IN /\ DOMAIN found.result.params = { name[j] : j \in dyn }
           /\ \A j \in dyn : found.result.params[name[j]] = S[j]

\* C26 amended: a trie node holds at most one dynamic child, whose parameter name
\* is the one given by the first registration that put a parameter at that
\* position; a later registration with another name leaves it unchanged,
\* and every lookup through the position records the segment under the first
\* name (a name met again further down the walk keeps the later segment)
\* and under no other name.
C26_FirstNameFixed ==
  LET R == RegSegs IN
  /\ Cardinality({ n \in 1..Len(trie) : trie[n].paramName # NoName })
       = Cardinality({ n \in 1..Len(trie) : trie[n].dynamicChild # 0 })
  /\ \A k \in DOMAIN R : \A j \in 1..Len(R[k]) :
       IsParam(R[k][j]) => trie[NodeAt(R[k], j)].paramName = NameAt(R, R[k], j)
  /\ (found # NoLookup /\ found.result.found)
     => LET S == Segs(found.path)
            on == [j \in 1..Len(S) |-> OnWalk(R, S, j)]
            dyn == { j \in 1..Len(S) : IsParam(R[SetMin(on[j])][j]) }
            name == [j \in dyn |-> NameAt(R, R[SetMin(on[j])], j)]
        IN /\ DOMAIN found.result.params = { name[j] : j \in dyn }
           /\ \A j \in dyn :
                (\A i \in dyn : i > j => name[i] # name[j])
                => found.result.params[name[j]] = S[j]

\* A later, longer route registered another parameter name at the first
\* position; a lookup resolved to the later route and recorded the segment
\* under the first name only.
C26_Witness ==
  /\ found # NoLookup
  /\ Len(regs) >= 2
  /\ Len(Segs(regs[1].path)) = 1
  /\ Len(Segs(regs[2].path)) = 2
  /\ IsParam(Segs(regs[1].path)[1])
  /\ IsParam(Segs(regs[2].path)[1])
  /\ Segs(regs[1].path)[1] # Segs(regs[2].path)[1]
  /\ found.result.found
  /\ found.result.handler = 2
  /\ DOMAIN found.result.params = {Tail(Segs(regs[1].path)[1])}
  /\ found.result.params[Tail(Segs(regs[1].path)[1])] = Segs(found.path)[1]

\* --------------------------------------------------- dispatcher: properties

\* How often an event is in the log, and where it is first (0: nowhere).
Count(ev) == Cardinality({ k \in 1..Len(log) : log[k] = ev })

Pos(ev) ==
  IF Count(ev) = 0 THEN 0 ELSE SetMin({ k \in 1..Len(log) : log[k] = ev })

Run(chain, i) == <<"run", chain, i>>

Called(chain, i) == <<"next", chain, i>>

\* Nothing of the request is left to happen.
Quiescent ==
  /\ hpc # "idle"
  /\ wpc # "body"
  /\ \A f \in 1..Len(frames) : frames[f].st # "susp"

\* The global middleware registered after the core middleware: A, then B.
LayerA == Len(CoreMiddleware) + 1

LayerB == Len(CoreMiddleware) + 2

HitsRoute == TrieCacheGet(trie, req.method, req.url).found

\* The request matches the route whose one handler is H, behind global
\* middleware A and B.
BehindAB ==
  /\ Len(app.globalMiddleware) = LayerB
  /\ app.routeHandlers = <<"send">>
  /\ HitsRoute

\* C1: behind global middleware A and B that both invoke their
\* continuation, the request runs A, then B, then H, each exactly once, and
\* H never starts before B has invoked its continuation.
C1_ChainOrder ==
  (/\ BehindAB
   /\ app.globalMiddleware[LayerA] \in Continuing
   /\ app.globalMiddleware[LayerB] \in Continuing)
  => /\ Count(Run("g", LayerA)) <= 1
     /\ Count(Run("g", LayerB)) <= 1
     /\ Count(Run("r", 1)) <= 1
     /\ Count(Run("g", LayerB)) = 1 => Pos(Run("g", LayerA)) < Pos(Run("g", LayerB))
     /\ Count(Run("r", 1)) = 1 =>
          /\ Pos(Called("g", LayerB)) # 0
          /\ Pos(Called("g", LayerB)) < Pos(Run("r", 1))
     /\ Quiescent => /\ Count(Run("g", LayerA)) = 1
                     /\ Count(Run("g", LayerB)) = 1
                     /\ Count(Run("r", 1)) = 1

\* C2: when global middleware B throws or rejects, the route handler H does
\* not execute and _handleError is called exactly once, with B's failure,
\* however the middleware before B treats the result of its continuation.
C2_ThrowShortCircuits ==
  (/\ BehindAB
   /\ app.globalMiddleware[LayerA] \in Continuing
   /\ app.globalMiddleware[LayerB] \in {"throw", "reject"})
  => /\ Count(Run("r", 1)) = 0
     /\ Len(errCalls) <= 1
     /\ Quiescent => /\ Len(errCalls) = 1
                     /\ errCalls[1].err = HandlerError("g", LayerB)

\* C3: the terminal handler of the matched route executes at most once per
\* request, even when a middleware invokes its continuation more than once.
C3_TerminalAtMostOnce ==
  (HitsRoute /\ app.routeHandlers[Len(app.routeHandlers)] = "send")
  => Count(Run("r", Len(app.routeHandlers))) <= 1

\* C4: when _send404 is called for a response that is already completed,
\* nothing is written (the status and what went on the wire are unchanged)
\* and no exception escapes _handleRequest.
C4_NotFoundAfterComplete ==
  \A k \in 1..Len(nfCalls) :
    nfCalls[k].ended => /\ nfCalls[k].after = nfCalls[k].before
                        /\ nfCalls[k].status[2] = nfCalls[k].status[1]
                        /\ hpc # "escaped"

\* A global middleware completed the response, no route matched, and
\* _send404 was called.
C4_Witness ==
  /\ Len(nfCalls) = 1
  /\ nfCalls[1].ended
  /\ Len(wire) = 1
  /\ wire[1].status = 200
  /\ hpc = "done"

\* The global chain has ended without a failure and the route was resolved.
Routed == hpc \in {"route", "done"} /\ Failure(Cur, hchild) = NoErr /\ Settled(Cur, hchild)

\* router.lookup finds neither the mounted handler nor the route.
RouterMisses ==
  /\ ~(app.mountHandlers # <<>> /\ RouterMatches(MountPath, req.url))
  /\ ~(req.method = app.routeMethod /\ RouterMatches(RoutePattern, req.url))

NotFoundResponse == [status |-> 404, type |-> "", body |-> Text("Not Found")]

\* No route handler has run, and the one call of _send404 wrote the
\* not-found response, or nothing when the response was completed before.
OnlyNotFound ==
  /\ \A f \in 1..Len(frames) : frames[f].chain # "r"
  /\ wpc = "none"
  /\ hpc = "done"
  /\ Len(nfCalls) = 1
  /\ IF nfCalls[1].ended THEN nfCalls[1].after = nfCalls[1].before
     ELSE nfCalls[1].after = Append(nfCalls[1].before, NotFoundResponse)

\* C8 as stated: when the trie lookup finds no match, no route handler is
\* executed and exactly one not-found response (404, 'Not Found') is
\* emitted, or nothing when a global middleware completed the response.
C8_TrieMissNotFound == (Routed /\ ~HitsRoute) => OnlyNotFound

\* C8 amended: when neither the trie lookup nor the lookup of the fallback
\* router finds a match, no route handler is executed and exactly one
\* not-found response is emitted, or nothing when the response is completed.
C8_NoMatchNotFound == (Routed /\ ~HitsRoute /\ RouterMisses) => OnlyNotFound

\* A request matched nothing and the not-found response went on the wire.
C8_Witness ==
  /\ Routed
  /\ ~HitsRoute
  /\ RouterMisses
  /\ wire = <<NotFoundResponse>>
  /\ res.writableEnded

MalformedJson ==
  /\ req.method = "POST"
  /\ req.json
  /\ req.payload # <<>>
  /\ ~JsonParse(req.payload).ok

\* C9: a request with a JSON content type and a malformed payload to a
\* matched route runs no handler of the route chain and is completed with
\* a status-400 validation response that carries one detail entry.
C9_MalformedJsonIs400 ==
  (HitsRoute /\ MalformedJson)
  => /\ \A f \in 1..Len(frames) : frames[f].chain # "r"
     /\ Quiescent => /\ Len(wire) = 1
                     /\ wire[1].status = 400
                     /\ wire[1].body.code = "VALIDATION_FAILED"
                     /\ Len(wire[1].body.details) = 1

\* The route is (validate(schema), H), the schema requires `name`, and the
\* body of the request is an object without `name`.
OmitsName ==
  /\ HitsRoute
  /\ app.routeHandlers = <<"validate", "send">>
  /\ req.method = "POST"
  /\ ~MalformedJson
  /\ ~(req.json /\ JsonParse(req.payload).ok
       /\ "name" \in DOMAIN JsonParse(req.payload).value)

\* C10: a request whose body omits the required field `name` is completed
\* with status 400 and a detail list of exactly one entry whose field is
\* `name`, and the handlers after the validation step do not execute.
C10_MissingNameDetail ==
  OmitsName
  => /\ Count(Run("r", 2)) = 0
     /\ Quiescent => /\ Len(wire) = 1
                     /\ wire[1].status = 400
                     /\ Len(wire[1].body.details) = 1
                     /\ wire[1].body.details[1].field = <<"name">>

\* The route is (validate(schema), H) and the body of the request is an
\* object with `name`, as the schema requires.
SatisfiesSchema ==
  /\ HitsRoute
  /\ app.routeHandlers = <<"validate", "send">>
  /\ app.schema = "body"
  /\ req.method = "POST"
  /\ req.json
  /\ JsonParse(req.payload).ok
  /\ "name" \in DOMAIN JsonParse(req.payload).value

\* C11: for a route (validate(schema), H) and a request whose data satisfies
\* the schema, H executes exactly once, after the validation step, and the
\* response is completed by H.
C11_ValidThenHandler ==
  SatisfiesSchema
  => /\ Count(Run("r", 2)) <= 1
     /\ Count(Run("r", 2)) = 1 => Pos(Run("r", 1)) < Pos(Run("r", 2))
     /\ Quiescent => /\ Count(Run("r", 1)) = 1
                     /\ Count(Run("r", 2)) = 1
                     /\ Len(wire) = 1
                     /\ wire[1].status = 200

\* The log positions at which a handler invoked its continuation with a
\* failure value.
FailureCalls ==
  { k \in 1..Len(log) :
      /\ log[k][1] = "next"
      /\ KindOf(Cur, log[k][2], log[k][3]) \in {"nextErr", "nextErrRet"} }

\* C12: once a handler of the global chain or of a route chain has invoked
\* its continuation with a failure value, no handler starts any more, and
\* by the end of the request _handleError was called with that failure.
C12_ContinuationFailure ==
  \A k \in FailureCalls :
    /\ \A m \in (k + 1)..Len(log) : log[m][1] # "run"
    /\ Quiescent =>
         \E c \in 1..Len(errCalls) :
           errCalls[c].err = ContinuationError(log[k][2], log[k][3])

\* Handler i of a chain sends the response and does not invoke its
\* continuation, and every handler before it in the composed chain invokes
\* its continuation once.
HaltsAtGlobal(i) ==
  /\ HitsRoute
  /\ i \in (Len(CoreMiddleware) + 1)..Len(app.globalMiddleware)
  /\ app.globalMiddleware[i] = "send"
  /\ \A j \in 1..(i - 1) : app.globalMiddleware[j] \in Continuing

HaltsAtRoute(i) ==
  /\ HitsRoute
  /\ i \in 1..Len(app.routeHandlers)
  /\ app.routeHandlers[i] = "send"
  /\ \A j \in 1..Len(app.globalMiddleware) : app.globalMiddleware[j] \in Continuing
  /\ \A j \in 1..(i - 1) : app.routeHandlers[j] \in Continuing

\* C13: when a global middleware completes the response without invoking
\* its continuation, no later global middleware and no route handler
\* executes; when a route-scoped middleware does, no later route handler
\* executes; in both cases no error is raised.
C13_HaltWithoutContinuation ==
  /\ \A i \in 1..Len(app.globalMiddleware) :
       HaltsAtGlobal(i)
       => /\ \A j \in (i + 1)..Len(app.globalMiddleware) : Count(Run("g", j)) = 0
          /\ \A j \in 1..Len(app.routeHandlers) : Count(Run("r", j)) = 0
          /\ errCalls = <<>>
          /\ unhandled = <<>>
  /\ \A i \in 1..Len(app.routeHandlers) :
       HaltsAtRoute(i)
       => /\ \A j \in (i + 1)..Len(app.routeHandlers) : Count(Run("r", j)) = 0
          /\ errCalls = <<>>
          /\ unhandled = <<>>

\* Handler i of the matched route's chain throws or fails asynchronously,
\* and every handler before it invokes its continuation once, awaiting the
\* result or not.
FailsAtRoute(i) ==
  /\ HitsRoute
  /\ i \in 1..Len(app.routeHandlers)
  /\ app.routeHandlers[i] \in {"throw", "reject"}
  /\ \A j \in 1..Len(app.globalMiddleware) : app.globalMiddleware[j] \in Continuing
  /\ \A j \in 1..(i - 1) : app.routeHandlers[j] \in Continuing

\* The response of _handleError to a failure that is no validation error.
ServerErrorResponse ==
  [status |-> 500, type |-> "application/json",
   body |-> Json("Internal Server Error", "SERVER_ERROR", <<>>)]

\* C14: when a handler of the matched route's chain throws or fails
\* asynchronously, also behind a middleware that did not await its
\* continuation, the handlers after it do not execute, _handleError is
\* called with the failure and the request ends with an error response.
C14_RouteFailureHandled ==
  \A i \in 1..Len(app.routeHandlers) :
    (FailsAtRoute(i) /\ app.listeners > 0)
    => /\ \A j \in (i + 1)..Len(app.routeHandlers) : Count(Run("r", j)) = 0
       /\ Quiescent =>
            /\ \E c \in 1..Len(errCalls) : errCalls[c].err = HandlerError("r", i)
            /\ wire = <<ServerErrorResponse>>

\* C15: whatever _handleError writes is fixed by the kind of the failure:
\* status 400, code VALIDATION_FAILED and the failure's detail list for a
\* CustomValidationError; status 500, code SERVER_ERROR and the message
\* 'Internal Server Error', never the failure's own message, for any other.
C15_ErrorResponseByKind ==
  \A c \in 1..Len(errCalls) :
    errCalls[c].after # errCalls[c].before
    => /\ Len(errCalls[c].after) = Len(errCalls[c].before) + 1
       /\ LET w == errCalls[c].after[Len(errCalls[c].after)]
              e == errCalls[c].err
          IN IF e.name = "CustomValidationError"
             THEN /\ w.status = 400
                  /\ w.body.kind = "json"
                  /\ w.body.code = "VALIDATION_FAILED"
                  /\ w.body.details = e.details
             ELSE /\ w = ServerErrorResponse
                  /\ w.body.text # e.message

\* _handleError wrote the response to a handler's Error.
C15_Witness ==
  /\ Len(errCalls) = 1
  /\ errCalls[1].err.name = "Error"
  /\ errCalls[1].err.message = "boom"
  /\ errCalls[1].before = <<>>
  /\ wire = <<ServerErrorResponse>>

\* The first handler of the matched route raises a failure that is no
\* validation error, before anything was written.
RaisesServerError ==
  /\ HitsRoute
  /\ app.routeHandlers[1] \in {"throw", "reject"}
  /\ \A j \in 1..Len(app.globalMiddleware) : app.globalMiddleware[j] \in Continuing

\* C16: when a handler raises a failure that is no validation error and the
\* response is not completed, _handleError runs exactly once and exactly one
\* status-500 response is written, with or without a listener of 'error'.
C16_ServerErrorDecoupled ==
  RaisesServerError
  => /\ Len(errCalls) <= 1
     /\ Quiescent => /\ Len(errCalls) = 1
                     /\ wire = <<ServerErrorResponse>>

\* C17: a call of _handleError for a response that is already completed
\* (headers sent, or no longer writable) leaves the status, the headers and
\* what went on the wire as they were.
C17_NoWriteAfterComplete ==
  \A c \in 1..Len(errCalls) :
    errCalls[c].completed => /\ errCalls[c].after = errCalls[c].before
                             /\ errCalls[c].res[2] = errCalls[c].res[1]

\* A handler sent the response and then failed: _handleError was called
\* for the completed response.
C17_Witness ==
  /\ Len(errCalls) = 1
  /\ errCalls[1].completed
  /\ errCalls[1].res[1].headersSent
  /\ Len(wire) = 1
  /\ wire[1].status = 200

\* C18: a call of _handleError with a failure that is no validation error
\* for a response that is already completed still emits the 'error' event
\* with that failure to the subscribed listeners.
C18_EmitWhenCompleted ==
  \A c \in 1..Len(errCalls) :
    (/\ errCalls[c].completed
     /\ errCalls[c].err.name # "CustomValidationError"
     /\ app.listeners > 0)
    => \E k \in 1..Len(emitted) : emitted[k] = errCalls[c].err

\* ------------------------------------------- response helpers: properties

\* C19: a completed response stays completed; a helper called on a
\* completed response changes no status and no header, writes nothing and
\* raises no failure; send, json and redirect leave the response completed.
C19_CompletedGatesWrites ==
  \A k \in 1..Len(log) :
    /\ log[k].res[1].writableEnded => log[k].res[2].writableEnded
    /\ (log[k].op \in {"send", "json", "redirect"} /\ log[k].thrown = NoErr)
       => log[k].res[2].writableEnded
    /\ (log[k].op # "enhance" /\ log[k].res[1].writableEnded)
       => /\ log[k].res[2] = log[k].res[1]
          /\ log[k].wire[2] = log[k].wire[1]
          /\ log[k].thrown = NoErr

\* C20: _enhanceResponse on a response that is already enhanced changes
\* nothing: the marker stays set and the helpers installed by the first
\* application stay in place, however often it is applied again.
C20_EnhanceIdempotent ==
  \A k \in 1..Len(log) :
    (log[k].op = "enhance" /\ log[k].res[1].enhanced)
    => /\ log[k].res[2] = log[k].res[1]
       /\ log[k].res[2].enhanced
       /\ log[k].res[2].helpers = 1
       /\ log[k].wire[2] = log[k].wire[1]

\* _enhanceResponse was applied three times, the response stays enhanced
\* by the first application.
C20_Witness ==
  /\ Len(log) = 3
  /\ \A k \in 1..3 : log[k].op = "enhance"
  /\ res.enhanced
  /\ res.helpers = 1

\* ------------------------------------------------ registration: properties

\* C21: registering a chain again for a (method, pattern) pair that is
\* already registered raises no failure, and a lookup of that pair then
\* returns the chain registered last.
C21_ReRegistrationOverwrites ==
  \A k1 \in 1..Len(regs), k2 \in 1..Len(regs) :
    (/\ k1 < k2
     /\ regs[k1].method = regs[k2].method
     /\ regs[k1].path = regs[k2].path)
    => /\ regs[k2].thrown = NoErr
       /\ (/\ found.method = regs[k2].method
           /\ found.path = regs[k2].path
           /\ found.result.found
           /\ \A k \in (k2 + 1)..Len(regs) : Segs(regs[k].path) # Segs(regs[k2].path))
          => found.result.handler = regs[k2].handler

\* ---------------------------------------------- dispatcher: more properties

\* C22: the body that the route handlers of a GET or DELETE request see is
\* an empty mapping, whatever the headers and the payload are.
C22_NoBodyMethodEmptyMapping ==
  (/\ req.method \in {"GET", "DELETE"}
   /\ \E f \in 1..Len(frames) : frames[f].chain = "r")
  => req.body = Object(EmptyMap)

\* The content type and the output the specification gives for a body: by
\* its shape.
ExpectedType(body) ==
  IF body.t = "buffer" THEN "application/octet-stream"
  ELSE IF body.t # "string" THEN "application/json"
  ELSE IF IsMarkup(body.v) THEN "text/html"
  ELSE "text/plain"

\* C23: send(body) on a response without a content type, not completed
\* yet, sets the content type by the shape of the body (binary, structured,
\* markup string, other string), and completes the response with one write
\* of that type.
C23_SendInfersContentType ==
  \A k \in 1..Len(log) :
    (/\ log[k].op = "send"
     /\ log[k].res[1].contentType = ""
     /\ ~log[k].res[1].headersSent)
    => /\ log[k].thrown = NoErr
       /\ log[k].res[2].writableEnded
       /\ log[k].res[2].contentType = ExpectedType(log[k].arg)
       /\ Len(log[k].wire[2]) = Len(log[k].wire[1]) + 1
       /\ log[k].wire[2][Len(log[k].wire[2])].type = ExpectedType(log[k].arg)

\* Every handler of the application invokes its continuation, completes
\* the response, or fails.
WellBehaved ==
  LET ok == Continuing \cup {"send", "throw", "reject"} IN
  /\ \A j \in 1..Len(app.globalMiddleware) : app.globalMiddleware[j] \in ok
  /\ \A j \in 1..Len(app.routeHandlers) : app.routeHandlers[j] \in ok
  /\ \A j \in 1..Len(app.mountHandlers) : app.mountHandlers[j] \in ok

\* C24: when every handler invokes its continuation, completes the response
\* or fails, and every awaited operation settles, the response of the
\* request is eventually finished.
C24_EventuallyCompleted == (app # NoApp /\ WellBehaved) ~> res.writableEnded

\* What dispatching the url's path alone, without its query string,
\* resolves to: the handler chain and the captured parameters.
PathAlone ==
  LET path == UpToQuery(req.url)
      route == TrieCacheGet(trie, req.method, path)
  IN IF route.found THEN [which |-> "route", params |-> route.params]
     ELSE IF app.mountHandlers # <<>> /\ RouterMatches(MountPath, path)
     THEN [which |-> "mount", params |-> EmptyMap]
     ELSE IF req.method = app.routeMethod /\ RouterMatches(RoutePattern, path)
     THEN [which |-> "route", params |-> RouterParams(RoutePattern, path)]
     ELSE [which |-> "none", params |-> EmptyMap]

\* C28: the query string of the url takes no part in route resolution: the
\* handler chain selected and the parameters captured for a url are those
\* of its path alone.
C28_QueryNotInResolution ==
  hpc \in {"route", "done"}
  => /\ wrapped.which = PathAlone.which
     /\ req.params = PathAlone.params

\* ---------------------------------------------------- rateLimit: properties

\* The calls of middleware m for address ip that invoked the continuation
\* at a time within the window of m that starts at s.
PassedInWindow(m, ip, s) ==
  { j \in 1..Len(log) :
      /\ log[j].limiter = m
      /\ log[j].ip = ip
      /\ log[j].next
      /\ log[j].at >= s
      /\ log[j].at <= s + m.windowMs }

\* C29: for every middleware returned by rateLimit(max, windowMs), every
\* address and every window start recorded for the address, at most max
\* calls for that address within the window invoke the continuation; a
\* call that does not invoke it fails with 'Too many requests'; and a call
\* for one address leaves the counts of the other addresses as they were.
C29_AtMostMaxPerWindow ==
  \A k \in 1..Len(log) :
    /\ \A m \in Limiters :
         Cardinality(PassedInWindow(m, log[k].ip, log[k].start)) <= m.max
    /\ ~log[k].next => log[k].thrown = TooManyRequests
    /\ log[k].next => log[k].thrown = NoErr
    /\ \A ip \in Addresses \ {log[k].ip} :
         /\ (ip \in DOMAIN log[k].store[1]) = (ip \in DOMAIN log[k].store[2])
         /\ ip \in DOMAIN log[k].store[1] => log[k].store[1][ip] = log[k].store[2][ip]

\* ------------------------------------------------------ timeout: properties

\* C30: the timer of the timeout middleware writes its 408 response only to
\* a response that is not completed: when it expires after the response
\* was completed, before or after 'finish' could clear it, it puts nothing
\* on the wire and raises no failure.
C30_TimerInertOnceCompleted ==
  \A k \in 1..Len(log) :
    (log[k].op = "timer" /\ log[k].res[1].writableEnded)
    => /\ log[k].wire[2] = log[k].wire[1]
       /\ log[k].thrown = NoErr

\* ------------------------------------------- concurrent requests: properties

\* The entries of log c.log that are starts of handlers of the chain.
Starts(c, chain) ==
  SelectSeq(c.log, LAMBDA e : e[1] = "run" /\ e[2] = chain)

\* The context c holds what its own request gives: the parameters captured
\* from its url, the body parsed from its payload, and a chain position
\* that follows its own handler starts (each layer once, in order).
OwnContext(c) ==
  /\ c.req.params = IF c.wrapped.which = "route"
                    THEN TrieCacheGet(trie, c.req.method, c.req.url).params
                    ELSE EmptyMap
  /\ c.req.body \in {NoBody, ParseBodyRead(c.req).body}
  /\ c.index = Len(Starts(c, "g")) + 1
  /\ \A k \in 1..Len(Starts(c, "g")) : Starts(c, "g")[k] = <<"run", "g", k>>
  /\ \A k \in 1..Len(Starts(c, "r")) : Starts(c, "r")[k] = <<"run", "r", k>>

\* C27: under every interleaving of two requests at their suspension
\* points, each request's context is its own: the captured parameters, the
\* parsed body and the chain position its handlers observe are those
\* derived from that request, whatever the other request has done.
C27_ContextExclusive == OwnContext(Cur) /\ OwnContext(peer)

\* Both requests are in flight at different chain positions: the first is
\* suspended in a global middleware that is not the last, while the second
\* has run them all and waits for its payload; each has its own captured
\* parameter.
C27_Witness ==
  /\ \E f \in 1..Len(frames) : frames[f].st = "susp" /\ frames[f].chain = "g"
  /\ index <= Len(app.globalMiddleware)
  /\ peer.wpc = "body"
  /\ peer.index = Len(app.globalMiddleware) + 1
  /\ req.params = (<<"i">> :> <<"7">>)
  /\ peer.req.params = (<<"i">> :> <<"8">>)

====
